---- MODULE Spec2Model ----
(***************************************************************************)
(* Model of github-repo-sync: the action entry point run() built on        *)
(* simple-git (setupSourceRemote, syncBranches, syncTags) and the shell    *)
(* script flow sync() built on execSync (configureGit, syncBranch,         *)
(* syncTags, cleanupRemotes), together with the git state they act on:     *)
(* the source repository, the destination repository and the local clone.  *)
(***************************************************************************)
EXTENDS Integers, Sequences, FiniteSets, TLC

VARIABLES
  cfg,          \* the inputs of the run (readInputs / sync's arguments and env)
  source,       \* source repository: [branches, tags], each name -> commit (0 = absent)
  dest,         \* destination repository: [branches, tags]
  local,        \* local clone: [tracking, tags, remotes]
  pc,           \* position of the run
  branchNames,  \* syncBranches: the list the all-branches loop walks
  matchingTags, \* syncTags: the list the pattern loop walks
  idx,          \* index of the next element of the loop in progress
  log,          \* remote git operations executed so far, in order
  status,       \* "running", "success" (completed successfully) or "failed"
  call,         \* a call of a pure function: its arguments and its result
  history       \* the runs completed before this one: what each left behind

vars == <<cfg, source, dest, local, pc, branchNames, matchingTags, idx, log, status, call, history>>

runVars == <<cfg, source, dest, local, pc, branchNames, matchingTags, idx, log, status, history>>

----------------------------------------------------------------------------
(* Bounds of the model *)

\* commits are 1..MaxCommit; 0 stands for "no commit" (an absent ref, no parent)
MaxCommit == 4

\* source branches and tags point into 1..MaxSourceCommit (or are absent)
MaxSourceCommit == 2

\* commit timestamps handed to the analyzer are 1..MaxTime
MaxTime == 3

\* runs made in succession with one configuration
MaxRuns == 2

Commits == 1..MaxCommit

----------------------------------------------------------------------------
(* Text: strings are sequences of one-character strings *)

IsPrefixAt(hay, needle, at) ==
  /\ at + Len(needle) - 1 <= Len(hay)
  /\ \A k \in 1..Len(needle) : hay[at + k - 1] = needle[k]

\* String.prototype.startsWith
StartsWith(hay, needle) == IsPrefixAt(hay, needle, 1)

\* String.prototype.includes
Includes(hay, needle) == \E at \in 1..(Len(hay) + 1) : IsPrefixAt(hay, needle, at)

\* branch names
Main == <<"m", "a", "i", "n">>
Dev == <<"d", "e", "v">>

Branches == {Main, Dev}

\* tag names
V10 == <<"v", "1", ".", "0">>
V11 == <<"v", "1", ".", "1">>
V20 == <<"v", "2", ".", "0">>

Tags == {V10, V11, V20}

TagOrder == <<V10, V11, V20>>

BranchOrder == <<Dev, Main>>

\* the strings the code compares with and builds refs from
TrueText == <<"t", "r", "u", "e">>
SourcePrefix == <<"s", "o", "u", "r", "c", "e", "/">>
OriginPrefix == <<"o", "r", "i", "g", "i", "n", "/">>
ArrowText == <<"-", ">">>
HeadAliasLine == OriginPrefix \o <<"H", "E", "A", "D", " ">> \o ArrowText \o <<" ">> \o OriginPrefix \o Main

\* String.prototype.replace(needle, "") : the first occurrence removed
RemoveFirst(hay, needle) ==
  IF ~Includes(hay, needle) THEN hay
  ELSE LET at == CHOOSE a \in 1..(Len(hay) + 1) :
                   /\ IsPrefixAt(hay, needle, a)
                   /\ \A b \in 1..(a - 1) : ~IsPrefixAt(hay, needle, b)
       IN SubSeq(hay, 1, at - 1) \o SubSeq(hay, at + Len(needle), Len(hay))

\* Array.prototype.filter
RECURSIVE SelectByOrder(_, _)
SelectByOrder(order, keep) ==
  IF order = <<>> THEN <<>>
  ELSE (IF Head(order) \in keep THEN <<Head(order)>> ELSE <<>>) \o SelectByOrder(Tail(order), keep)

Range(seq) == {seq[k] : k \in 1..Len(seq)}

----------------------------------------------------------------------------
(* The regular expressions a tag pattern can be: an optional leading ^,    *)
(* \c for the literal character c, . for any character, literals.          *)

RECURSIVE ParseRegex(_)
ParseRegex(p) ==
  IF p = <<>> THEN <<>>
  ELSE IF p[1] = "\\" /\ Len(p) >= 2 THEN <<<<"lit", p[2]>>>> \o ParseRegex(SubSeq(p, 3, Len(p)))
  ELSE IF p[1] = "." THEN <<<<"any", ".">>>> \o ParseRegex(Tail(p))
  ELSE <<<<"lit", p[1]>>>> \o ParseRegex(Tail(p))

MatchAt(items, s, at) ==
  /\ at + Len(items) - 1 <= Len(s)
  /\ \A k \in 1..Len(items) : items[k][1] = "any" \/ items[k][2] = s[at + k - 1]

\* tag.match(syncTags) / grep "${SYNC_TAGS}": an unanchored search
RegexMatch(s, p) ==
  LET anchored == Len(p) > 0 /\ p[1] = "^"
      items == ParseRegex(IF anchored THEN Tail(p) ELSE p)
  IN IF anchored THEN MatchAt(items, s, 1)
     ELSE \E at \in 1..(Len(s) + 1) : MatchAt(items, s, at)

----------------------------------------------------------------------------
(* The commit graph: a forest. Commit c has parent c \div 2, except that   *)
(* every fourth commit starts an unrelated history.                        *)

Parent(c) == IF c % 4 = 0 THEN 0 ELSE c \div 2

RECURSIVE Ancestors(_)
Ancestors(c) == IF c = 0 THEN {} ELSE {c} \cup Ancestors(Parent(c))

IsAncestor(a, b) == a \in Ancestors(b)

\* git merge-base: the most recent commit reachable from both, 0 if none
commonAncestor(a, b) ==
  LET common == Ancestors(a) \cap Ancestors(b)
  IN IF common = {} THEN 0
     ELSE CHOOSE m \in common : \A x \in common : x \in Ancestors(m)

----------------------------------------------------------------------------
(* Remote Classifier *)

GerritWord == <<"g", "e", "r", "r", "i", "t">>
GerritPort == <<":", "2", "9", "4", "1", "8">>
GerritPath == <<"/", "r", "/">>

LowerChar(c) ==
  CASE c = "G" -> "g" [] c = "E" -> "e" [] c = "R" -> "r"
    [] c = "I" -> "i" [] c = "T" -> "t" [] OTHER -> c

ToLower(s) == [k \in 1..Len(s) |-> LowerChar(s[k])]

\* a pattern list without the SSH port pattern
GerritPatternsWithoutPort(url) ==
  \/ Includes(ToLower(url), GerritWord)
  \/ Includes(url, GerritPath)

\* GERRIT_DETECTION_PATTERNS: /gerrit/i, /:29418/, /\/r\//
GERRIT_DETECTION_PATTERNS(url) ==
  \/ Includes(ToLower(url), GerritWord)
  \/ Includes(url, GerritPort)
  \/ Includes(url, GerritPath)

classify(url) == IF GERRIT_DETECTION_PATTERNS(url) THEN "Gerrit" ELSE "Standard"

StandardUrl == <<"h", "t", "t", "p", "s", ":", "/", "/", "h", "/", "o">>
GerritUrl == <<"s", "s", "h", ":", "/", "/", "g", ":", "2", "9", "4", "1", "8", "/", "p">>

DestinationUrls == {StandardUrl, GerritUrl}

UrlSchemes == {<<"h", "t", "t", "p", "s", ":", "/", "/">>, <<"s", "s", "h", ":", "/", "/">>}
UrlHosts == {<<"h">>, GerritWord, <<"G", "E", "R", "R", "I", "T">>,
             <<"G", "e", "r", "r", "i", "t">>, <<"g", "e", "r", "i", "t">>}
UrlPorts == {<<>>, GerritPort, <<":", "2", "2">>}
UrlPaths == {<<"/", "o">>, <<"/", "r", "/", "o">>, <<"/", "R", "/", "o">>, <<"/", "r">>}

----------------------------------------------------------------------------
(* Divergence Analyzer *)

RefSnapshot(name, commit) == [name |-> name, commit |-> commit]

\* an analyzer that orders the two commits by their timestamps
analyzeByTimestamp(sourceRef, destinationRef) ==
  IF destinationRef.commit = 0 THEN [kind |-> "Missing", mergeBase |-> 0]
  ELSE IF sourceRef.commit = destinationRef.commit THEN [kind |-> "Identical", mergeBase |-> 0]
  ELSE IF call.time[destinationRef.commit] < call.time[sourceRef.commit]
  THEN [kind |-> "FastForward", mergeBase |-> destinationRef.commit]
  ELSE [kind |-> "Diverged", mergeBase |-> commonAncestor(sourceRef.commit, destinationRef.commit)]

\* a destination snapshot with commit 0 is the absent destination
analyze(sourceRef, destinationRef) ==
  LET mergeBase == commonAncestor(sourceRef.commit, destinationRef.commit)
  IN IF destinationRef.commit = 0 THEN [kind |-> "Missing", mergeBase |-> 0]
     ELSE IF sourceRef.commit = destinationRef.commit THEN [kind |-> "Identical", mergeBase |-> 0]
     ELSE IF mergeBase = destinationRef.commit THEN [kind |-> "FastForward", mergeBase |-> mergeBase]
     ELSE IF mergeBase = sourceRef.commit THEN [kind |-> "DestinationAhead", mergeBase |-> mergeBase]
     ELSE [kind |-> "Diverged", mergeBase |-> mergeBase]

----------------------------------------------------------------------------
(* Inputs and initial state of a run *)

ForcePolicies == {"allow", "deny"}

TagPatternV1 == <<"^", "v", "1", "\\", ".">>

\* a pattern no tag name matches
TagPatternV9 == <<"^", "v", "9">>

SyncTagsInputs == {<<>>, TrueText, TagPatternV1, TagPatternV9}

\* flow "action" is run() of the GitHub action, flow "script" is sync().
\* forcePolicy belongs to the configuration surface; readInputs has no such
\* input and nothing in either flow reads it.
Configs ==
  { c \in [flow : {"action", "script"},
           sourceBranch : Branches,
           destinationBranch : Branches,
           syncAllBranches : BOOLEAN,
           syncTags : SyncTagsInputs,
           forcePolicy : ForcePolicies,
           destinationRepo : DestinationUrls] :
      c.flow = "script" => ~c.syncAllBranches }

SourceTags == [t \in Tags |-> 1]

NoTags == [t \in Tags |-> 0]

DestTagStates == {NoTags, [t \in Tags |-> IF t = V20 THEN 2 ELSE 0]}

NoBranches == [b \in Branches |-> 0]

NoCall == [op |-> "none"]

\* the local repository a run starts from: sync() runs in a checkout of the
\* destination, run() starts with nothing and clones
FreshLocal ==
  IF cfg.flow = "script"
  THEN [tracking |-> NoBranches, origin |-> dest.branches,
        tags |-> dest.tags, remotes |-> {"origin"}]
  ELSE [tracking |-> NoBranches, origin |-> NoBranches,
        tags |-> NoTags, remotes |-> {}]

Init ==
  /\ cfg \in Configs
  /\ source \in [branches : [Branches -> 0..MaxSourceCommit], tags : {SourceTags}]
  /\ dest \in [branches : [Branches -> 0..MaxCommit], tags : DestTagStates]
  /\ local = FreshLocal
  /\ pc = "start"
  /\ branchNames = <<>>
  /\ matchingTags = <<>>
  /\ idx = 0
  /\ log = <<>>
  /\ status = "running"
  /\ call = NoCall
  /\ history = <<>>

----------------------------------------------------------------------------
(* Git operations on the remotes *)

LogEntry(op, kind, src, ns, dst, force, ok, before, tip, names) ==
  [op |-> op, kind |-> kind, src |-> src, ns |-> ns, dst |-> dst, force |-> force,
   ok |-> ok, before |-> before, tip |-> tip, names |-> names]

\* a catch that swallows the error and lets the flow end as if it had succeeded
ThrowSwallowed ==
  /\ status' = "success"
  /\ pc' = "done"

\* an error thrown out of a step: run() catches it and calls core.setFailed,
\* sync() lets it escape; in both the flow ends there
Throw ==
  /\ status' = "failed"
  /\ pc' = "done"

\* whether the destination takes a push of commit tip onto a ref at commit before
Accepts(force, before, tip) == force \/ before = 0 \/ IsAncestor(before, tip)

\* a push that mirrors the tracked branches of the source onto the destination:
\* every destination branch is set to the source's, and removed when the source has none
GitPushBranchMirror(refspec, reached) ==
  LET tip == local.tracking[refspec.src]
      before == dest.branches[refspec.dst]
      ok == reached /\ tip # 0
  IN /\ log' = Append(log, LogEntry("push", "branch", refspec.src, refspec.ns, refspec.dst,
                                    refspec.force, ok, before, tip, {}))
     /\ dest' = IF ok THEN [dest EXCEPT !.branches = local.tracking] ELSE dest
     /\ local' = IF ok THEN [local EXCEPT !.origin = local.tracking] ELSE local

\* git push origin refs/remotes/<remote>/<src>:refs/heads/<dst> [--force]
\* reached: the remote answered; the push succeeds if also the source ref exists
\* and the destination takes the update
GitPushBranch(refspec, reached) ==
  LET tip == local.tracking[refspec.src]
      before == dest.branches[refspec.dst]
      ok == reached /\ tip # 0 /\ Accepts(refspec.force, before, tip)
  IN /\ log' = Append(log, LogEntry("push", "branch", refspec.src, refspec.ns, refspec.dst,
                                    refspec.force, ok, before, tip, {}))
     /\ dest' = IF ok /\ refspec.ns = "heads"
                THEN [dest EXCEPT !.branches[refspec.dst] = tip]
                ELSE dest
     /\ local' = IF ok /\ refspec.ns = "heads"
                 THEN [local EXCEPT !.origin[refspec.dst] = tip]
                 ELSE local

\* a caller that does not look at the outcome of the push
PushResultIgnored == TRUE

PushSucceeded == log' # <<>> /\ log'[Len(log')].ok

\* git push origin <refs of the tags in names> [--force], one command
GitPushTags(kind, names, force, reached) ==
  LET ok == reached /\ \A t \in names : Accepts(force, dest.tags[t], local.tags[t])
  IN /\ log' = Append(log, LogEntry("push", kind, <<>>, "tags", <<>>, force, ok, 0, 0, names))
     /\ dest' = IF ok
                THEN [dest EXCEPT !.tags = [t \in Tags |-> IF t \in names THEN local.tags[t]
                                                           ELSE dest.tags[t]]]
                ELSE dest

\* git fetch <remote> --tags: the source's tags are written over the local ones
GitFetchTags(localTags, reached) ==
  /\ log' = Append(log, LogEntry("fetch", "tags", <<>>, "tags", <<>>, FALSE, reached, 0, 0, {}))
  /\ local' = IF reached
              THEN [local EXCEPT !.tags = [t \in Tags |-> IF source.tags[t] # 0 THEN source.tags[t]
                                                          ELSE localTags[t]]]
              ELSE local

\* git fetch <remote> [<branch>]: the remote-tracking refs follow the source;
\* fetching a branch the source does not have fails
GitFetch(clone, kind, branch, reached) ==
  LET ok == reached /\ (kind = "branch" => source.branches[branch] # 0)
  IN /\ log' = Append(log, LogEntry("fetch", kind, branch, "remotes", branch, FALSE, ok, 0, 0, {}))
     /\ local' = IF ~ok THEN clone
                 ELSE IF kind = "branch"
                 THEN [clone EXCEPT !.tracking[branch] = source.branches[branch]]
                 ELSE [clone EXCEPT !.tracking = source.branches]

FetchSucceeded == log'[Len(log')].ok

----------------------------------------------------------------------------
(* run(): the action built on simple-git *)

\* readInputs .. cloneDestinationRepo, setupSourceRemote
setupSourceRemote ==
  /\ pc = "start"
  /\ cfg.flow = "action"
  /\ \E cloned \in BOOLEAN, reached \in BOOLEAN :
       IF cloned
       THEN /\ GitFetch([tracking |-> NoBranches, origin |-> dest.branches,
                         tags |-> dest.tags, remotes |-> {"origin", "source"}],
                        "all", <<>>, reached)
            /\ IF reached
               THEN pc' = "syncBranches" /\ UNCHANGED status
               ELSE Throw
       ELSE /\ Throw
            /\ UNCHANGED <<local, log>>
  /\ UNCHANGED <<cfg, source, dest, branchNames, matchingTags, idx, call, history>>

\* repo.branch(["-r"]).all: the remote-tracking branches of the clone
RemoteBranchListing ==
  <<HeadAliasLine>>
  \o [k \in 1..Len(SelectByOrder(BranchOrder, {b \in Branches : local.origin[b] # 0})) |->
        OriginPrefix \o SelectByOrder(BranchOrder, {b \in Branches : local.origin[b] # 0})[k]]
  \o [k \in 1..Len(SelectByOrder(BranchOrder, {b \in Branches : local.tracking[b] # 0})) |->
        SourcePrefix \o SelectByOrder(BranchOrder, {b \in Branches : local.tracking[b] # 0})[k]]

\* a filter that collects the branches in the reverse of the listing's order
RECURSIVE FilterSourceLinesReversed(_)
FilterSourceLinesReversed(lines) ==
  IF lines = <<>> THEN <<>>
  ELSE FilterSourceLinesReversed(Tail(lines))
       \o (IF StartsWith(Head(lines), SourcePrefix) /\ ~Includes(Head(lines), ArrowText)
           THEN <<RemoveFirst(Head(lines), SourcePrefix)>> ELSE <<>>)

\* branches.all.filter(startsWith("source/") && !includes("->")).map(replace("source/", ""))
RECURSIVE FilterSourceLines(_)
FilterSourceLines(lines) ==
  IF lines = <<>> THEN <<>>
  ELSE (IF StartsWith(Head(lines), SourcePrefix) /\ ~Includes(Head(lines), ArrowText)
        THEN <<RemoveFirst(Head(lines), SourcePrefix)>> ELSE <<>>)
       \o FilterSourceLines(Tail(lines))

\* a refspec with its two sides exchanged
PushRefspecSwapped(sourceBranch, destinationBranch) ==
  [src |-> destinationBranch, ns |-> "heads", dst |-> sourceBranch, force |-> TRUE]

\* the refspec and options of a branch push
PushRefspec(sourceBranch, destinationBranch) ==
  [src |-> sourceBranch, ns |-> "heads", dst |-> destinationBranch, force |-> TRUE]

\* syncBranches, all branches: the listing
syncBranchesList ==
  /\ pc = "syncBranches"
  /\ cfg.syncAllBranches
  /\ branchNames' = FilterSourceLines(RemoteBranchListing)
  /\ idx' = 1
  /\ pc' = IF branchNames' = <<>> THEN "syncTags" ELSE "pushAll"
  /\ UNCHANGED <<cfg, source, dest, local, matchingTags, log, status, call, history>>

\* syncBranches, all branches: one turn of the loop
syncBranchesPushNext ==
  /\ pc = "pushAll"
  /\ idx <= Len(branchNames)
  /\ \E reached \in BOOLEAN :
       GitPushBranch(PushRefspec(branchNames[idx], branchNames[idx]), reached)
  /\ IF PushSucceeded
     THEN /\ idx' = idx + 1
          /\ pc' = IF idx' > Len(branchNames) THEN "syncTags" ELSE "pushAll"
          /\ UNCHANGED status
     ELSE Throw /\ UNCHANGED idx
  /\ UNCHANGED <<cfg, source, branchNames, matchingTags, call, history>>

\* syncBranches, single branch: repo.fetch("source", sourceBranch)
syncBranchesFetch ==
  /\ pc = "syncBranches"
  /\ ~cfg.syncAllBranches
  /\ \E reached \in BOOLEAN : GitFetch(local, "branch", cfg.sourceBranch, reached)
  /\ IF FetchSucceeded THEN pc' = "pushSingle" /\ UNCHANGED status ELSE Throw
  /\ UNCHANGED <<cfg, source, dest, branchNames, matchingTags, idx, call, history>>

\* a push that is attempted again after it failed
syncBranchesPushRetried ==
  /\ pc = "pushSingle"
  /\ \E reached \in BOOLEAN :
       GitPushBranch(PushRefspec(cfg.sourceBranch, cfg.destinationBranch), reached)
  /\ IF PushSucceeded THEN pc' = "syncTags" /\ UNCHANGED status
     ELSE IF Len(log') < 4 THEN pc' = "pushSingle" /\ UNCHANGED status
     ELSE Throw
  /\ UNCHANGED <<cfg, source, branchNames, matchingTags, idx, call, history>>

\* syncBranches, single branch: repo.push
syncBranchesPush ==
  /\ pc = "pushSingle"
  /\ \E reached \in BOOLEAN :
       GitPushBranch(PushRefspec(cfg.sourceBranch, cfg.destinationBranch), reached)
  /\ IF PushSucceeded THEN pc' = "syncTags" /\ UNCHANGED status ELSE Throw
  /\ UNCHANGED <<cfg, source, branchNames, matchingTags, idx, call, history>>

Finish ==
  /\ status' = "success"
  /\ pc' = "done"

LocalTagNames(tags) == {t \in Tags : tags[t] # 0}

\* allTags.all.filter((tag) => tag.match(syncTags)) / git tag | grep
MatchingTags(tags, pattern) ==
  SelectByOrder(TagOrder, {t \in LocalTagNames(tags) : RegexMatch(t, pattern)})

\* syncTags === "true": repo.fetch("source", "--tags")
syncTagsAll ==
  /\ pc = "syncTags"
  /\ cfg.flow = "action"
  /\ cfg.syncTags = TrueText
  /\ \E reached \in BOOLEAN : GitFetchTags(local.tags, reached)
  /\ IF FetchSucceeded THEN pc' = "pushTagsAll" /\ UNCHANGED status ELSE Throw
  /\ UNCHANGED <<cfg, source, dest, branchNames, matchingTags, idx, call, history>>

\* syncTags === "true": repo.pushTags("origin", {"--force": null})
syncTagsPushAll ==
  /\ pc = "pushTagsAll"
  /\ \E reached \in BOOLEAN : GitPushTags("tags", LocalTagNames(local.tags), TRUE, reached)
  /\ IF PushSucceeded THEN Finish ELSE Throw
  /\ UNCHANGED <<cfg, source, local, branchNames, matchingTags, idx, call, history>>

\* syncTags is a pattern: the fetch and the filter
syncTagsPattern ==
  /\ pc = "syncTags"
  /\ cfg.flow = "action"
  /\ cfg.syncTags # TrueText
  /\ cfg.syncTags # <<>>
  /\ \E reached \in BOOLEAN : GitFetchTags(local.tags, reached)
  /\ IF FetchSucceeded
     THEN /\ matchingTags' = MatchingTags(local'.tags, cfg.syncTags)
          /\ idx' = 1
          /\ IF matchingTags' = <<>> THEN Finish ELSE pc' = "pushTag" /\ UNCHANGED status
     ELSE Throw /\ UNCHANGED <<matchingTags, idx>>
  /\ UNCHANGED <<cfg, source, dest, branchNames, call, history>>

\* syncTags is a pattern: one turn of the loop over matchingTags
syncTagsPushNext ==
  /\ pc = "pushTag"
  /\ idx <= Len(matchingTags)
  /\ \E reached \in BOOLEAN : GitPushTags("tag", {matchingTags[idx]}, TRUE, reached)
  /\ IF PushSucceeded
     THEN /\ idx' = idx + 1
          /\ IF idx' > Len(matchingTags) THEN Finish ELSE pc' = "pushTag" /\ UNCHANGED status
     ELSE Throw /\ UNCHANGED idx
  /\ UNCHANGED <<cfg, source, local, branchNames, matchingTags, call, history>>

\* syncTags is empty: "Tag syncing disabled"
syncTagsDisabled ==
  /\ pc = "syncTags"
  /\ cfg.flow = "action"
  /\ cfg.syncTags = <<>>
  /\ Finish
  /\ UNCHANGED <<cfg, source, dest, local, branchNames, matchingTags, idx, log, call, history>>

----------------------------------------------------------------------------
(* sync(): the script built on execSync *)

\* sync up to and including configureGit, which adds the remote tmp_upstream
configureGit ==
  /\ pc = "start"
  /\ cfg.flow = "script"
  /\ \E ok \in BOOLEAN :
       IF ok
       THEN /\ local' = [local EXCEPT !.remotes = @ \cup {"tmp_upstream"}]
            /\ pc' = "syncBranch"
            /\ UNCHANGED status
       ELSE Throw /\ UNCHANGED local
  /\ UNCHANGED <<cfg, source, dest, branchNames, matchingTags, idx, log, call, history>>

\* syncBranch: git fetch tmp_upstream --quiet
syncBranchFetch ==
  /\ pc = "syncBranch"
  /\ \E reached \in BOOLEAN : GitFetch(local, "all", <<>>, reached)
  /\ IF FetchSucceeded THEN pc' = "syncBranchPush" /\ UNCHANGED status ELSE Throw
  /\ UNCHANGED <<cfg, source, dest, branchNames, matchingTags, idx, call, history>>

\* syncBranch: git push origin refs/remotes/tmp_upstream/<s>:refs/heads/<d> --force
syncBranch ==
  /\ pc = "syncBranchPush"
  /\ \E reached \in BOOLEAN :
       GitPushBranch(PushRefspec(cfg.sourceBranch, cfg.destinationBranch), reached)
  /\ IF PushSucceeded THEN pc' = "syncTags" /\ UNCHANGED status ELSE Throw
  /\ UNCHANGED <<cfg, source, branchNames, matchingTags, idx, call, history>>

\* syncTags of the script, SYNC_TAGS unset: return
syncTagsEnvUnset ==
  /\ pc = "syncTags"
  /\ cfg.flow = "script"
  /\ cfg.syncTags = <<>>
  /\ pc' = "cleanup"
  /\ UNCHANGED <<cfg, source, dest, local, branchNames, matchingTags, idx, log, status, call, history>>

\* syncTags of the script: the local tags are deleted, the source's fetched and,
\* for a pattern, the tag list is piped through grep, which exits 1 on no match
syncTagsEnvFetch ==
  /\ pc = "syncTags"
  /\ cfg.flow = "script"
  /\ cfg.syncTags # <<>>
  /\ \E reached \in BOOLEAN : GitFetchTags(NoTags, reached)
  /\ IF FetchSucceeded
     THEN /\ matchingTags' = IF cfg.syncTags = TrueText
                             THEN SelectByOrder(TagOrder, LocalTagNames(local'.tags))
                             ELSE MatchingTags(local'.tags, cfg.syncTags)
          /\ IF cfg.syncTags # TrueText /\ matchingTags' = <<>>
             THEN Throw
             ELSE pc' = "pushTagsEnv" /\ UNCHANGED status
     ELSE Throw /\ UNCHANGED matchingTags
  /\ UNCHANGED <<cfg, source, dest, branchNames, idx, call, history>>

\* syncTags of the script: git push origin --tags --force, or
\* git push origin --force "<tag>" ..., one command either way
syncTagsEnvPush ==
  /\ pc = "pushTagsEnv"
  /\ \E reached \in BOOLEAN : GitPushTags("tags", Range(matchingTags), TRUE, reached)
  /\ IF PushSucceeded THEN pc' = "cleanup" /\ UNCHANGED status ELSE Throw
  /\ UNCHANGED <<cfg, source, local, branchNames, matchingTags, idx, call, history>>

\* cleanupRemotes, then "Sync completed successfully!"
cleanupRemotes ==
  /\ pc = "cleanup"
  /\ local' = [local EXCEPT !.remotes = @ \ {"tmp_upstream"}]
  /\ Finish
  /\ UNCHANGED <<cfg, source, dest, branchNames, matchingTags, idx, log, call, history>>

----------------------------------------------------------------------------

Next ==
  \/ setupSourceRemote
  \/ syncBranchesList
  \/ syncBranchesPushNext
  \/ syncBranchesFetch
  \/ syncBranchesPush
  \/ syncTagsAll
  \/ syncTagsPushAll
  \/ syncTagsPattern
  \/ syncTagsPushNext
  \/ syncTagsDisabled
  \/ configureGit
  \/ syncBranchFetch
  \/ syncBranch
  \/ syncTagsEnvUnset
  \/ syncTagsEnvFetch
  \/ syncTagsEnvPush
  \/ cleanupRemotes

Spec == Init /\ [][Next]_vars

----------------------------------------------------------------------------
(* Runs in succession: the same configuration is run again after a run     *)
(* that completed successfully, neither repository being changed between.  *)

rerun ==
  /\ pc = "done"
  /\ status = "success"
  /\ Len(history) + 1 < MaxRuns
  /\ history' = Append(history, [dest |-> dest, ops |-> Len(log)])
  /\ local' = FreshLocal
  /\ pc' = "start"
  /\ status' = "running"
  /\ branchNames' = <<>>
  /\ matchingTags' = <<>>
  /\ idx' = 0
  /\ UNCHANGED <<cfg, source, dest, log, call>>

\* neither flow reads the force policy or the kind of the destination URL
InitTwice ==
  /\ Init
  /\ cfg.forcePolicy = "deny"
  /\ cfg.destinationRepo = StandardUrl

NextTwice == Next \/ rerun

SpecTwice == InitTwice /\ [][NextTwice]_vars

----------------------------------------------------------------------------
(* Calls of the pure functions, outside any run *)

IdleRun ==
  /\ cfg = [flow |-> "none"]
  /\ source = [branches |-> NoBranches, tags |-> NoTags]
  /\ dest = [branches |-> NoBranches, tags |-> NoTags]
  /\ local = [tracking |-> NoBranches, origin |-> NoBranches, tags |-> NoTags, remotes |-> {}]
  /\ pc = "idle"
  /\ branchNames = <<>>
  /\ matchingTags = <<>>
  /\ idx = 0
  /\ log = <<>>
  /\ status = "running"
  /\ history = <<>>

\* the analyzer is handed two snapshots; time holds the commits' timestamps
InitAnalyze ==
  /\ IdleRun
  /\ \E s \in Commits, d \in 0..MaxCommit, n \in Branches, m \in Branches,
        time \in [Commits -> 1..MaxTime] :
       call = [op |-> "analyze", source |-> RefSnapshot(n, s), destination |-> RefSnapshot(m, d),
               time |-> time, done |-> FALSE, result |-> [kind |-> "none", mergeBase |-> 0]]

analyzeCall ==
  /\ call.op = "analyze"
  /\ ~call.done
  /\ call' = [call EXCEPT !.done = TRUE, !.result = analyze(call.source, call.destination)]
  /\ UNCHANGED runVars

NextAnalyze == analyzeCall

SpecAnalyze == InitAnalyze /\ [][NextAnalyze]_vars

----------------------------------------------------------------------------
(* Branch Resolver *)

Master == <<"m", "a", "s", "t", "e", "r">>
Rel == <<"r", "e", "l">>

BRANCH_FALLBACK_ORDER == <<Main, Master>>

NullBranch == [isNull |-> TRUE, branch |-> <<>>]

\* a scan that keeps the last entry of the order that is available
RECURSIVE ScanFallbackLast(_, _)
ScanFallbackLast(order, availableBranches) ==
  IF order = <<>> THEN NullBranch
  ELSE IF order[Len(order)] \in Range(availableBranches)
  THEN [isNull |-> FALSE, branch |-> order[Len(order)]]
  ELSE ScanFallbackLast(SubSeq(order, 1, Len(order) - 1), availableBranches)

\* for (const branch of order) if (availableBranches.includes(branch)) return branch
RECURSIVE ScanFallback(_, _)
ScanFallback(order, availableBranches) ==
  IF order = <<>> THEN NullBranch
  ELSE IF Head(order) \in Range(availableBranches)
  THEN [isNull |-> FALSE, branch |-> Head(order)]
  ELSE ScanFallback(Tail(order), availableBranches)

getTryFallbackBranch(availableBranches) == ScanFallback(BRANCH_FALLBACK_ORDER, availableBranches)

\* Array.prototype.join
RECURSIVE Join(_, _)
Join(items, sep) ==
  IF items = <<>> THEN <<>>
  ELSE IF Len(items) = 1 THEN items[1]
  ELSE items[1] \o sep \o Join(Tail(items), sep)

CommaSpace == <<",", " ">>
NoneText == <<"n", "o", "n", "e">>

\* ERROR_MESSAGES.BRANCH_NOT_FOUND_WITH_FALLBACK: the two texts put into the message
BRANCH_NOT_FOUND_WITH_FALLBACK(branch, available) ==
  [kind |-> "BranchNotFound",
   branch |-> branch,
   available |-> IF Join(available, CommaSpace) = <<>> THEN NoneText
                 ELSE Join(available, CommaSpace)]

NoError == [kind |-> "none", branch |-> <<>>, available |-> <<>>]

\* a resolver that tries the fallback order before the requested name
resolveFallbackFirst(requested, available, fallbackOrder) ==
  LET fallback == ScanFallback(fallbackOrder, available)
  IN IF ~fallback.isNull THEN [ok |-> TRUE, branch |-> fallback.branch, error |-> NoError]
     ELSE IF requested \in Range(available)
     THEN [ok |-> TRUE, branch |-> requested, error |-> NoError]
     ELSE [ok |-> FALSE, branch |-> <<>>,
           error |-> BRANCH_NOT_FOUND_WITH_FALLBACK(requested, available)]

resolve(requested, available, fallbackOrder) ==
  LET fallback == ScanFallback(fallbackOrder, available)
  IN IF requested \in Range(available)
     THEN [ok |-> TRUE, branch |-> requested, error |-> NoError]
     ELSE IF ~fallback.isNull
     THEN [ok |-> TRUE, branch |-> fallback.branch, error |-> NoError]
     ELSE [ok |-> FALSE, branch |-> <<>>,
           error |-> BRANCH_NOT_FOUND_WITH_FALLBACK(requested, available)]

ResolverNames == {Main, Master, Dev, Rel}

ResolverListing == <<Dev, Main, Master, Rel>>

FallbackOrders == {BRANCH_FALLBACK_ORDER, <<Master, Main>>, <<>>}

InitResolve ==
  /\ IdleRun
  /\ \E requested \in ResolverNames, present \in SUBSET ResolverNames,
        fallbackOrder \in FallbackOrders :
       call = [op |-> "resolve", requested |-> requested,
               available |-> SelectByOrder(ResolverListing, present),
               fallbackOrder |-> fallbackOrder, done |-> FALSE,
               result |-> [ok |-> FALSE, branch |-> <<>>, error |-> NoError],
               fallback |-> NullBranch]

resolveCall ==
  /\ call.op = "resolve"
  /\ ~call.done
  /\ call' = [call EXCEPT !.done = TRUE,
                          !.result = resolve(call.requested, call.available, call.fallbackOrder),
                          !.fallback = getTryFallbackBranch(call.available)]
  /\ UNCHANGED runVars

NextResolve == resolveCall

SpecResolve == InitResolve /\ [][NextResolve]_vars

(* Calls of the Remote Classifier *)

InitClassify ==
  /\ IdleRun
  /\ \E scheme \in UrlSchemes, host \in UrlHosts, port \in UrlPorts, path \in UrlPaths :
       call = [op |-> "classify", url |-> scheme \o host \o port \o path,
               done |-> FALSE, result |-> "none"]

classifyCall ==
  /\ call.op = "classify"
  /\ ~call.done
  /\ call' = [call EXCEPT !.done = TRUE, !.result = classify(call.url)]
  /\ UNCHANGED runVars

NextClassify == classifyCall

SpecClassify == InitClassify /\ [][NextClassify]_vars

(* Branch mapping *)

MaxMappingLen == 4

Colon == ":"

MappingChars == {"a", "b", Colon}

RECURSIVE MappingTexts(_)
MappingTexts(n) ==
  IF n = 0 THEN {<<>>}
  ELSE MappingTexts(n - 1) \cup
       {Append(t, c) : t \in {u \in MappingTexts(n - 1) : Len(u) = n - 1}, c \in MappingChars}

\* String.prototype.split with a one-character separator
RECURSIVE Split(_, _)
Split(text, sep) ==
  IF \A k \in 1..Len(text) : text[k] # sep THEN <<text>>
  ELSE LET first == CHOOSE k \in 1..Len(text) :
                      text[k] = sep /\ \A j \in 1..(k - 1) : text[j] # sep
       IN <<SubSeq(text, 1, first - 1)>> \o Split(SubSeq(text, first + 1, Len(text)), sep)

\* const [source, destination] = branchMapping.split(":"); a missing second
\* part is undefined, which the test !destination treats like the empty text
parseBranchMapping(branchMapping) ==
  LET parts == Split(branchMapping, Colon)
      sourcePart == parts[1]
      destinationPart == IF Len(parts) >= 2 THEN parts[2] ELSE <<>>
  IN IF sourcePart = <<>> \/ destinationPart = <<>>
     THEN [threw |-> TRUE, source |-> <<>>, destination |-> <<>>]
     ELSE [threw |-> FALSE, source |-> sourcePart, destination |-> destinationPart]

InitParse ==
  /\ IdleRun
  /\ \E branchMapping \in MappingTexts(MaxMappingLen) :
       call = [op |-> "parseBranchMapping", branchMapping |-> branchMapping, done |-> FALSE,
               result |-> [threw |-> FALSE, source |-> <<>>, destination |-> <<>>]]

parseCall ==
  /\ call.op = "parseBranchMapping"
  /\ ~call.done
  /\ call' = [call EXCEPT !.done = TRUE, !.result = parseBranchMapping(call.branchMapping)]
  /\ UNCHANGED runVars

NextParse == parseCall

SpecParse == InitParse /\ [][NextParse]_vars

(* Branch listing *)

ArrowBranch == <<"a", "-", ">", "b">>
REVIEW_QUEUE_PREFIX == <<"r", "e", "f", "s", "/", "f", "o", "r", "/">>
CHANGES_PREFIX == <<"r", "e", "f", "s", "/", "c", "h", "a", "n", "g", "e", "s", "/">>
ReviewRef == REVIEW_QUEUE_PREFIX \o Main

ListedNames == {Main, Dev, ArrowBranch, ReviewRef}

ListingOrder == <<ArrowBranch, Dev, Main, ReviewRef>>

Whitespace == {" ", "\t", "\r", "\n"}

\* String.prototype.trim
RECURSIVE Trim(_)
Trim(text) ==
  IF text = <<>> THEN <<>>
  ELSE IF Head(text) \in Whitespace THEN Trim(Tail(text))
  ELSE IF text[Len(text)] \in Whitespace THEN Trim(SubSeq(text, 1, Len(text) - 1))
  ELSE text

\* split(/\r?\n/): the parts between the line feeds, without the carriage
\* return that precedes a line feed
SplitLines(text) ==
  LET parts == Split(text, "\n")
  IN [k \in 1..Len(parts) |->
        IF k < Len(parts) /\ parts[k] # <<>> /\ parts[k][Len(parts[k])] = "\r"
        THEN SubSeq(parts[k], 1, Len(parts[k]) - 1)
        ELSE parts[k]]

\* .filter(conditions).map((line) => line.replace(sourcePrefix, ""))
RECURSIVE FilterLines(_, _, _)
FilterLines(lines, sourcePrefix, excludeGerritRefs) ==
  IF lines = <<>> THEN <<>>
  ELSE (IF /\ StartsWith(Head(lines), sourcePrefix)
           /\ ~Includes(Head(lines), ArrowText)
           /\ excludeGerritRefs => /\ ~Includes(Head(lines), REVIEW_QUEUE_PREFIX)
                                  /\ ~Includes(Head(lines), CHANGES_PREFIX)
        THEN <<RemoveFirst(Head(lines), sourcePrefix)>> ELSE <<>>)
       \o FilterLines(Tail(lines), sourcePrefix, excludeGerritRefs)

getSourceBranches(stdout, sourcePrefix, excludeGerritRefs) ==
  FilterLines([k \in 1..Len(SplitLines(stdout)) |-> Trim(SplitLines(stdout)[k])],
              sourcePrefix, excludeGerritRefs)

\* the output of git branch -r: two spaces, the ref, the end of the line
RECURSIVE RenderListing(_, _)
RenderListing(refs, eol) ==
  IF refs = <<>> THEN <<>>
  ELSE <<" ", " ">> \o Head(refs) \o eol \o RenderListing(Tail(refs), eol)

PrefixAll(prefix, names) == [k \in 1..Len(names) |-> prefix \o names[k]]

LineEnds == {<<"\n">>, <<"\r", "\n">>}

InitListing ==
  /\ IdleRun
  /\ \E sourceBranches \in SUBSET ListedNames, originBranches \in SUBSET Branches,
        head \in BOOLEAN, excludeGerritRefs \in BOOLEAN, eol \in LineEnds :
       call = [op |-> "getSourceBranches",
               sourceBranches |-> sourceBranches,
               stdout |-> RenderListing(
                   (IF head THEN <<HeadAliasLine>> ELSE <<>>)
                   \o PrefixAll(OriginPrefix, SelectByOrder(BranchOrder, originBranches))
                   \o PrefixAll(SourcePrefix, SelectByOrder(ListingOrder, sourceBranches)), eol),
               excludeGerritRefs |-> excludeGerritRefs,
               done |-> FALSE, result |-> <<>>]

listingCall ==
  /\ call.op = "getSourceBranches"
  /\ ~call.done
  /\ call' = [call EXCEPT !.done = TRUE,
                          !.result = getSourceBranches(call.stdout, SourcePrefix,
                                                       call.excludeGerritRefs)]
  /\ UNCHANGED runVars

NextListing == listingCall

SpecListing == InitListing /\ [][NextListing]_vars

----------------------------------------------------------------------------
(* Vocabulary of the properties *)

BranchPushes == {k \in DOMAIN log : log[k].op = "push" /\ log[k].kind = "branch"}

\* the branch pushes that had a source commit to push
SourcedPushes == {k \in BranchPushes : log[k].tip # 0}

TagOperations == {k \in DOMAIN log : log[k].ns = "tags"}

\* the divergence the analyzer finds between the two ends of a push
Divergence(e) == analyze(RefSnapshot(e.src, e.tip), RefSnapshot(e.dst, e.before)).kind

Kind == classify(cfg.destinationRepo)

\* the name the plan of section 4.4 gives to a push onto a standard remote
PlanName(e) ==
  CASE Divergence(e) = "Missing" -> "CreateNew"
    [] Divergence(e) = "FastForward" -> "FastForward"
    [] Divergence(e) = "Diverged" -> "ForcePush"
    [] OTHER -> "NoOp"

\* the branches a run is to push, in order
ExpectedOrder ==
  IF cfg.syncAllBranches
  THEN SelectByOrder(BranchOrder, {b \in Branches : source.branches[b] # 0})
  ELSE <<cfg.sourceBranch>>

RECURSIVE BranchPushSources(_)
BranchPushSources(l) ==
  IF l = <<>> THEN <<>>
  ELSE (IF Head(l).op = "push" /\ Head(l).kind = "branch" THEN <<Head(l).src>> ELSE <<>>)
       \o BranchPushSources(Tail(l))

IsPrefixOf(a, b) == Len(a) <= Len(b) /\ \A k \in 1..Len(a) : a[k] = b[k]

----------------------------------------------------------------------------
(* C1 *)

\* C1 (as claimed): on a Standard destination with forcePolicy = deny, no forced
\* push is executed onto a destination branch that has diverged from the source.
C1_NoForcePushOnDivergedWhenDenied ==
  (Kind = "Standard" /\ cfg.forcePolicy = "deny")
    => \A k \in SourcedPushes : Divergence(log[k]) = "Diverged" => ~log[k].force

(* C2 *)

\* C2: after a successful branch push whose plan is CreateNew, FastForward or
\* ForcePush, the destination branch of the mapping points to the commit of the
\* source branch tip, and the refspec pushed is source branch -> destination
\* branch of that same mapping, onto refs/heads.
C2_PushedBranchEqualsSourceTip ==
  \A k \in SourcedPushes :
    (log[k].ok /\ PlanName(log[k]) \in {"CreateNew", "FastForward", "ForcePush"})
      => /\ log[k].tip = source.branches[log[k].src]
         /\ dest.branches[log[k].dst] = source.branches[log[k].src]
         /\ log[k].ns = "heads"
         /\ IF cfg.syncAllBranches
            THEN log[k].src = log[k].dst /\ source.branches[log[k].src] # 0
            ELSE log[k].src = cfg.sourceBranch /\ log[k].dst = cfg.destinationBranch

\* C2 witness: a fast-forward push between differently named branches succeeded,
\* and a push that created an absent destination branch succeeded too
C2_Witness ==
  /\ \E k \in SourcedPushes :
       log[k].ok /\ PlanName(log[k]) = "FastForward" /\ log[k].src # log[k].dst
  /\ pc = "done"

(* C3 *)

\* C3 (as claimed): the pushes follow the planner's table: on a Standard
\* destination nothing is pushed onto an Identical branch, and a push is forced
\* exactly when the branch has Diverged and forcePolicy = allow.
C3_PushesFollowPlannerTable ==
  Kind = "Standard"
    => \A k \in SourcedPushes :
         /\ Divergence(log[k]) # "Identical"
         /\ log[k].force <=> (Divergence(log[k]) = "Diverged" /\ cfg.forcePolicy = "allow")

(* C4 *)

\* C4 (as claimed): nothing is pushed onto a destination branch that is strictly
\* ahead of the source branch, so the branch keeps its tip.
C4_NoPushWhenDestinationAhead ==
  \A k \in SourcedPushes :
    Divergence(log[k]) = "DestinationAhead"
      => ~log[k].ok /\ dest.branches[log[k].dst] = log[k].before

(* C11 *)

InSecondRun == Len(history) >= 1

SecondRunOps == {k \in DOMAIN log : InSecondRun /\ k > history[1].ops}

\* C11 (as claimed): in a second run after a successful one, with nothing
\* changed in between, no branch push and no tag push is executed, and the
\* destination refs are those the first run left.
C11_SecondRunPushesNothing ==
  InSecondRun =>
    /\ \A k \in SecondRunOps : log[k].op # "push"
    /\ dest = history[1].dest

(* C12 *)

Resolved == call.op = "resolve" /\ call.done

\* C12: a requested branch that is among the available branches is returned
\* unchanged, whatever the fallback order holds.
C12_ExactMatchWins ==
  (Resolved /\ call.requested \in Range(call.available))
    => (call.result.ok /\ call.result.branch = call.requested)

\* C12 witness: dev was requested and returned while main and master, both in
\* the fallback order, were available too
C12_Witness ==
  /\ Resolved
  /\ call.requested = Dev
  /\ {Dev, Main, Master} \subseteq Range(call.available)
  /\ call.fallbackOrder = BRANCH_FALLBACK_ORDER
  /\ call.result.branch = Dev

(* C13 *)

\* C13: for a requested branch that is not available, the fallback order
\* [main, master] gives main when main is available, master when only master is,
\* and otherwise the resolution fails with BranchNotFound, which carries the
\* requested name and every available branch.
C13_FallbackOrMissing ==
  (Resolved /\ call.requested \notin Range(call.available)
            /\ call.fallbackOrder = BRANCH_FALLBACK_ORDER)
    => LET av == Range(call.available)
       IN /\ Main \in av =>
               /\ call.result.ok /\ call.result.branch = Main
               /\ call.fallback = [isNull |-> FALSE, branch |-> Main]
          /\ (Main \notin av /\ Master \in av) =>
               /\ call.result.ok /\ call.result.branch = Master
               /\ call.fallback = [isNull |-> FALSE, branch |-> Master]
          /\ (Main \notin av /\ Master \notin av) =>
               /\ ~call.result.ok
               /\ call.fallback.isNull
               /\ call.result.error.kind = "BranchNotFound"
               /\ call.result.error.branch = call.requested
               /\ \A b \in av : Includes(call.result.error.available, b)
               /\ av = {} => call.result.error.available = NoneText

\* C13 witness: master requested with both fallbacks available gives main, and
\* a failure that lists the two branches that were available
C13_Witness ==
  /\ Resolved
  /\ call.fallbackOrder = BRANCH_FALLBACK_ORDER
  /\ \/ /\ call.requested = Rel
        /\ Range(call.available) = {Main, Master, Dev}
        /\ call.result.branch = Main
     \/ /\ call.requested = Main
        /\ Range(call.available) = {Dev, Rel}
        /\ ~call.result.ok

(* C14 *)

Classified == call.op = "classify" /\ call.done

\* the word occurs in the text in any letter case
ContainsAnyCase(text, word) ==
  \E k \in 1..(Len(text) - Len(word) + 1) :
    \A j \in 1..Len(word) : LowerChar(text[k + j - 1]) = word[j]

\* C14 as stated: classify yields Gerrit exactly for the URLs that contain the
\* substring "gerrit", or ":29418", or "/r/", and Standard for every other URL.
C14_GerritIffSubstring ==
  Classified =>
    /\ call.result \in {"Gerrit", "Standard"}
    /\ call.result = "Gerrit" <=>
         \/ Includes(call.url, GerritWord)
         \/ Includes(call.url, GerritPort)
         \/ Includes(call.url, GerritPath)

\* C14: classify is total and yields Gerrit exactly for the URLs that contain
\* "gerrit" in any letter case, or ":29418", or "/r/", and Standard for every
\* other URL.
C14_GerritIffSignature ==
  Classified =>
    /\ call.result \in {"Gerrit", "Standard"}
    /\ call.result = "Gerrit" <=>
         \/ ContainsAnyCase(call.url, GerritWord)
         \/ Includes(call.url, GerritPort)
         \/ Includes(call.url, GerritPath)

\* C14 witness: a URL whose host is GERRIT in capitals, without the port and
\* without the review path, has been classified as Gerrit
C14_Witness ==
  /\ Classified
  /\ Includes(call.url, <<"G", "E", "R", "R", "I", "T">>)
  /\ ~Includes(call.url, GerritPort)
  /\ ~Includes(call.url, GerritPath)
  /\ call.result = "Gerrit"

(* C5 *)

Analyzed == call.op = "analyze" /\ call.done

StrictAncestor(a, b) == a # b /\ IsAncestor(a, b)

\* C5 (as claimed): analyze returns one of Missing, Identical, FastForward and
\* Diverged, each exactly in its case of the ancestry relation.
C5_FourResultsByAncestry ==
  Analyzed =>
    LET s == call.source.commit
        d == call.destination.commit
        r == call.result.kind
    IN /\ r \in {"Missing", "Identical", "FastForward", "Diverged"}
       /\ r = "Missing" <=> d = 0
       /\ r = "Identical" <=> (d # 0 /\ s = d)
       /\ r = "FastForward" <=> (d # 0 /\ StrictAncestor(d, s))
       /\ r = "Diverged" <=> (d # 0 /\ ~IsAncestor(d, s) /\ ~IsAncestor(s, d))

\* C5 (amended): analyze returns exactly one of five results, decided by
\* ancestry alone: Missing iff the destination is absent, Identical iff the
\* commits are equal, FastForward iff the destination commit is a strict
\* ancestor of the source commit, DestinationAhead iff the source commit is a
\* strict ancestor of the destination commit, Diverged iff neither is an
\* ancestor of the other; Diverged carries the merge base, null when the
\* histories are unrelated.
C5_FiveResultsByAncestry ==
  Analyzed =>
    LET s == call.source.commit
        d == call.destination.commit
        r == call.result.kind
        mb == call.result.mergeBase
        common == Ancestors(s) \cap Ancestors(d)
    IN /\ r \in {"Missing", "Identical", "FastForward", "DestinationAhead", "Diverged"}
       /\ r = "Missing" <=> d = 0
       /\ r = "Identical" <=> (d # 0 /\ s = d)
       /\ r = "FastForward" <=> (d # 0 /\ StrictAncestor(d, s))
       /\ r = "DestinationAhead" <=> (d # 0 /\ StrictAncestor(s, d))
       /\ r = "Diverged" <=> (d # 0 /\ ~IsAncestor(d, s) /\ ~IsAncestor(s, d))
       /\ r = "Diverged" =>
            /\ mb = 0 <=> common = {}
            /\ mb # 0 => (mb \in common /\ \A x \in common : IsAncestor(x, mb))

\* C5 witness: the analyzer was given a destination later in time than the
\* source although it is its ancestor, one strictly ahead, and unrelated ones
C5_Witness ==
  /\ Analyzed
  /\ \/ /\ call.result.kind = "FastForward"
        /\ call.time[call.destination.commit] > call.time[call.source.commit]
     \/ /\ call.result.kind = "Diverged"
        /\ call.result.mergeBase = 0
        /\ call.time[call.destination.commit] < call.time[call.source.commit]

(* C6 *)

\* C6 (as claimed): against a Gerrit destination every branch push targets
\* refs/for/<destinationBranch> and none is forced.
C6_GerritPushesGoToReviewQueue ==
  Kind = "Gerrit" => \A k \in BranchPushes : log[k].ns = "for" /\ ~log[k].force

(* C7 *)

\* C7 (as claimed): in all-branches mode a finished run has attempted every
\* branch of the list, also when the push of an earlier branch failed.
C7_EveryBranchAttempted ==
  (pc = "done" /\ cfg.syncAllBranches)
    => \A j \in 1..Len(branchNames) : \E k \in BranchPushes : log[k].src = branchNames[j]

(* C8 *)

SelectedTags ==
  IF cfg.syncTags = TrueText THEN LocalTagNames(local.tags)
  ELSE {t \in LocalTagNames(local.tags) : RegexMatch(t, cfg.syncTags)}

TagsFetched == \E k \in DOMAIN log : log[k].op = "fetch" /\ log[k].kind = "tags" /\ log[k].ok

\* C8 (as claimed): once a run has fetched the tags and ended, every selected
\* tag has been attempted by a push operation of its own.
C8_EveryTagPushedOnItsOwn ==
  (pc = "done" /\ TagsFetched)
    => \A t \in SelectedTags :
         \E k \in DOMAIN log : log[k].op = "push" /\ log[k].kind = "tag" /\ log[k].names = {t}

(* C9 *)

\* C9: a run reports success only if every operation it attempted succeeded;
\* once a fetch or a push (branch or tag) has failed the run is ended as failed.
C9_SuccessOnlyIfAllSucceeded ==
  /\ status = "success" => \A k \in DOMAIN log : log[k].ok
  /\ (\E k \in DOMAIN log : ~log[k].ok) => (status = "failed" /\ pc = "done")

\* C9 witness: a tag push failed after the branch push succeeded
C9_Witness ==
  /\ \E k \in BranchPushes : log[k].ok
  /\ \E k \in DOMAIN log : log[k].op = "push" /\ log[k].ns = "tags" /\ ~log[k].ok
  /\ status = "failed"

(* C10 *)

\* C10: the branches are pushed in the configured order (the order of the remote
\* listing in all-branches mode), a branch is pushed only after the pushes before
\* it succeeded, and no tag fetch or tag push is made before every branch of the
\* run has been pushed.
C10_BranchesInOrderThenTags ==
  /\ IsPrefixOf(BranchPushSources(log), ExpectedOrder)
  /\ \A k \in TagOperations :
       /\ BranchPushSources(SubSeq(log, 1, k - 1)) = ExpectedOrder
       /\ \A j \in BranchPushes : j < k /\ log[j].ok

\* C10 witness: two branches were pushed, then the tags fetched and pushed
C10_Witness ==
  /\ Len(BranchPushSources(log)) = 2
  /\ \E k \in TagOperations : log[k].op = "push" /\ log[k].ok

(* C15 *)

PatternMode == cfg.syncTags # <<>> /\ cfg.syncTags # TrueText

PushedTags == UNION {log[k].names : k \in {j \in TagOperations : log[j].op = "push"}}

AllOperationsSucceeded == \A k \in DOMAIN log : log[k].ok

\* C15 (as claimed): with tag sync disabled a run fetches and pushes no tag;
\* otherwise the tags a run pushes are among the selected ones (all of them, or
\* those matching the pattern), a run whose operations all succeeded has pushed
\* exactly the selected tags, and a pattern that matches no tag pushes nothing
\* and ends the run without error.
C15_TagSetByMode ==
  /\ cfg.syncTags = <<>> => TagOperations = {}
  /\ TagsFetched => PushedTags \subseteq SelectedTags
  /\ (pc = "done" /\ status = "success" /\ TagsFetched) => PushedTags = SelectedTags
  /\ (pc = "done" /\ PatternMode /\ TagsFetched /\ AllOperationsSucceeded /\ SelectedTags = {})
       => (status = "success" /\ PushedTags = {})

(* C16 *)

FailedTagPushes == {k \in TagOperations : log[k].op = "push" /\ ~log[k].ok}

BranchSyncsSucceeded == BranchPushes # {} /\ \A k \in BranchPushes : log[k].ok

Target(e) == <<e.op, e.kind, e.src, e.ns, e.dst, e.names>>

\* C17: no fetch and no push is made twice in a run, each branch and each tag
\* is pushed at most once, and a failed operation is the last one of the run,
\* which ends as failed.
C17_NoRetry ==
  /\ \A j, k \in DOMAIN log : Target(log[j]) = Target(log[k]) => j = k
  /\ \A j, k \in BranchPushes : log[j].dst = log[k].dst => j = k
  /\ \A j, k \in TagOperations :
       (log[j].op = "push" /\ log[k].op = "push" /\ log[j].names \cap log[k].names # {}) => j = k
  /\ \A k \in DOMAIN log : ~log[k].ok => (k = Len(log) /\ pc = "done" /\ status = "failed")

\* C17 witness: a branch push failed after its fetch, and the run has ended
C17_Witness ==
  /\ pc = "done"
  /\ Len(log) >= 2
  /\ log[Len(log)].op = "push"
  /\ log[Len(log)].ns = "heads"
  /\ ~log[Len(log)].ok

(* C18 *)

Parsed == call.op = "parseBranchMapping" /\ call.done

Colons(text) == Cardinality({k \in 1..Len(text) : text[k] = Colon})

\* SOURCE:DESTINATION with exactly one colon and two non-empty parts
WellFormedMapping(text) ==
  /\ Colons(text) = 1
  /\ text[1] # Colon
  /\ text[Len(text)] # Colon

\* C18 (as claimed): parseBranchMapping rejects every input that is not
\* SOURCE:DESTINATION with one colon and two non-empty parts, and for an
\* accepted input returns non-empty source and destination that are exactly
\* the text before and the text after the colon.
C18_RejectsMalformedMapping ==
  Parsed =>
    /\ call.result.threw <=> ~WellFormedMapping(call.branchMapping)
    /\ ~call.result.threw =>
         /\ call.result.source # <<>>
         /\ call.result.destination # <<>>
         /\ call.result.source \o <<Colon>> \o call.result.destination = call.branchMapping

(* C19 *)

Listed == call.op = "getSourceBranches" /\ call.done

IsGerritRef(name) == Includes(name, REVIEW_QUEUE_PREFIX) \/ Includes(name, CHANGES_PREFIX)

\* the branches of the source remote, without the Gerrit refs when they are excluded
RealSourceBranches ==
  {b \in call.sourceBranches : call.excludeGerritRefs => ~IsGerritRef(b)}

\* C19 (as claimed): the list built from the listing holds exactly the branches
\* of the source remote, each once and under its own name, without the lines of
\* other remotes, the HEAD alias and the empty lines, and without Gerrit refs
\* when they are excluded.
C19_ListIsSourceBranches ==
  Listed =>
    /\ call.result = SelectByOrder(ListingOrder, RealSourceBranches)
    /\ call.excludeGerritRefs => \A k \in 1..Len(call.result) : ~IsGerritRef(call.result[k])

(* C20 *)

\* the destination branches the run was asked to sync
AskedBranches ==
  IF cfg.syncAllBranches THEN {b \in Branches : source.branches[b] # 0}
  ELSE {cfg.destinationBranch}

\* C20: a step of a run changes on the destination only branches it was asked
\* to sync (the configured destination branch, or in all-branches mode the
\* branches that have the name of a source branch), deletes no destination
\* branch and no destination tag, and changes no destination tag when tag sync
\* is disabled.
C20_OnlyAskedRefsChange ==
  [][/\ \A b \in Branches :
          dest'.branches[b] # dest.branches[b]
            => (b \in AskedBranches /\ dest'.branches[b] # 0)
     /\ \A t \in Tags :
          dest'.tags[t] # dest.tags[t]
            => (cfg.syncTags # <<>> /\ dest'.tags[t] # 0)]_vars

\* C20 witness: a single-branch run with tag sync disabled has moved the
\* configured destination branch, and the destination holds another branch and
\* a tag the run was not asked to sync
C20_Witness ==
  /\ pc = "done"
  /\ ~cfg.syncAllBranches
  /\ cfg.syncTags = <<>>
  /\ \E k \in BranchPushes :
       /\ log[k].ok
       /\ log[k].before # 0
       /\ log[k].before # log[k].tip
       /\ dest.branches[log[k].dst] = log[k].tip
  /\ \E b \in Branches : b # cfg.destinationBranch /\ dest.branches[b] # 0
  /\ \E t \in Tags : dest.tags[t] # 0

(* C21 *)

TmpUpstream == "tmp_upstream"

\* sync() is past configureGit and has not reached the removal in cleanupRemotes
BeforeCleanup == pc \in {"syncBranch", "syncBranchPush", "syncTags", "pushTagsEnv", "cleanup"}

\* configureGit has added the remote in this execution of sync()
ConfiguredRemote == cfg.flow = "script" /\ (BeforeCleanup \/ log # <<>> \/ status = "success")

\* C21 (as claimed): when sync() has ended after configureGit added tmp_upstream,
\* the remote has been removed, also when the fetch, the branch push or a tag
\* push failed; and it is still there until the branch push and the tag sync of
\* a successful execution have completed.
C21_TmpUpstreamRemoved ==
  /\ (ConfiguredRemote /\ pc = "done") => TmpUpstream \notin local.remotes
  /\ (cfg.flow = "script" /\ BeforeCleanup) => TmpUpstream \in local.remotes
  /\ (cfg.flow = "script" /\ status = "success") =>
       /\ \E k \in BranchPushes : log[k].ok
       /\ cfg.syncTags # <<>> => \E k \in TagOperations : log[k].op = "push" /\ log[k].ok

====
